---------------------------- MODULE Spec2Model ----------------------------
(* compcomp.py: a benchmark of external compression programs.  The model   *)
(* follows main(): method selection, the per-file loop of test_file, the   *)
(* command templating of run_one, the aggregation of Stats and the final   *)
(* printing step.  File names, keys and arguments are Python str values,   *)
(* modelled as sequences of one-character strings.                         *)
EXTENDS Integers, Sequences, FiniteSets, TLC

VARIABLES
    pc,          \* position in main(): see the actions below
    args,        \* argparse result: [list, methods, paths]
    isfile,      \* the regular files of the PATH directories (os.path.isfile)
    corpus,      \* the files file_scanner yields, in order: their sizes
    comps,       \* the global comps (rebound by main's two filters)
    printed,     \* the keys printed by --list
    exit_status, \* <<>>, or <<status>> once sys.exit was called
    stats,       \* main's stats: key -> Stats (a defaultdict: keys appear on use)
    all_stats,   \* key -> the results yielded for the key, in order (line 245)
    fs,          \* the temporary directory: path -> size of the file there
    file_idx,    \* number of corpus files handed to test_file so far
    filename,    \* test_file's working copy (tmp.name)
    input_size,  \* test_file's input_size
    method_idx,  \* position of test_file's loop in comps
    results,     \* test_file's results, in insertion order: <<key, stat>>
    command,     \* run_one's command after substitution
    output,      \* what run_one returned last (None or a path)
    launch,      \* outcome of the last subprocess.run
    launched,    \* the keys whose command main has launched so far, in order
    elapsed,     \* t1 - t0 of the last run_one
    raised       \* None, or the exception main died of

vars == <<pc, args, isfile, corpus, comps, printed, exit_status, stats,
          all_stats, fs, file_idx, filename, input_size, method_idx, results,
          command, output, launch, launched, elapsed, raised>>

None == "None"

-----------------------------------------------------------------------------
(* Python str operations on sequences of characters.                       *)

startswith(s, p) == Len(s) >= Len(p) /\ SubSeq(s, 1, Len(p)) = p

\* sub in s
Contains(s, sub) ==
    \E i \in 1..(Len(s) - Len(sub) + 1) : SubSeq(s, i, i + Len(sub) - 1) = sub

\* s.replace(old, new), old non-empty: leftmost non-overlapping occurrences,
\* found in one scan of s; the inserted text is not scanned again.
RECURSIVE replace(_, _, _)
replace(s, old, new) ==
    IF Len(s) < Len(old) THEN s
    ELSE IF startswith(s, old)
         THEN new \o replace(SubSeq(s, Len(old) + 1, Len(s)), old, new)
         ELSE <<s[1]>> \o replace(Tail(s), old, new)

-----------------------------------------------------------------------------
(* The static table of templates.                                          *)

Comp(key, suffix, cmd) == [key |-> key, suffix |-> suffix, command |-> cmd]

CompCp == << Comp(<<"c","p">>, <<".","c","o","p","y">>, <<<<"c","p">>, <<"F","I","L","E">>, <<"F","I","L","E",".","c","o","p","y">>>>) >>

CompsGzip ==
    LET level == <<<<"1">>, <<"3">>, <<"6">>, <<"9">>>>
    IN [i \in DOMAIN level |->
          Comp(<<"g","z","i","p","-">> \o level[i], <<".","g","z">>,
               <<<<"g","z","i","p">>, <<"-","-","k","e","e","p">>, <<"-">> \o level[i], <<"F","I","L","E">>>>)]

CompsZopfli ==
    LET iters == <<<<"1","5">>, <<"5","0">>>>
    IN [i \in DOMAIN iters |->
          Comp(<<"z","o","p","f","l","i","-","i">> \o iters[i], <<".","g","z">>,
               <<<<"z","o","p","f","l","i">>, <<"-","-","i">> \o iters[i], <<"F","I","L","E">>>>)]

CompsBz2 ==
    LET level == <<<<"4">>, <<"6">>, <<"9">>>>
    IN [i \in DOMAIN level |->
          Comp(<<"b","z","2","-">> \o level[i], <<".","b","z","2">>,
               <<<<"b","z","i","p","2">>, <<"-","-","k","e","e","p">>, <<"-">> \o level[i], <<"F","I","L","E">>>>)]

CompsXz ==
    LET level == <<<<"1">>, <<"3">>, <<"6">>, <<"9">>>>
    IN [i \in DOMAIN level |->
          Comp(<<"x","z","-">> \o level[i], <<".","x","z">>,
               <<<<"x","z">>, <<"-","-","k","e","e","p">>, <<"-">> \o level[i], <<"F","I","L","E">>>>)]

CompsLzma ==
    LET level == <<<<"6">>, <<"9">>>>
    IN [i \in DOMAIN level |->
          Comp(<<"l","z","m","a","-">> \o level[i], <<".","l","z","m","a">>,
               <<<<"l","z","m","a">>, <<"-","-","k","e","e","p">>, <<"-">> \o level[i], <<"F","I","L","E">>>>)]

CompsZstd ==
    LET level == <<<<"1">>, <<"3">>, <<"1","4">>, <<"1","6">>, <<"1","9">>>>
    IN [i \in DOMAIN level |->
          Comp(<<"z","s","t","d","-">> \o level[i], <<".","z","s","t">>,
               <<<<"z","s","t","d">>, <<"-","-","q","u","i","e","t">>, <<"-","-","k","e","e","p">>, <<"-">> \o level[i], <<"F","I","L","E">>>>)]

CompsLz4 ==
    LET level == <<<<"1">>, <<"4">>, <<"9">>, <<"1","2">>>>
    IN [i \in DOMAIN level |->
          Comp(<<"l","z","4","-">> \o level[i], <<".","l","z","4">>,
               <<<<"l","z","4">>, <<"-","-","q","u","i","e","t">>, <<"-","-","k","e","e","p">>, <<"-">> \o level[i], <<"F","I","L","E">>,
                 <<"F","I","L","E",".","l","z","4">>>>)]

CompsLzop ==
    LET level == <<<<"1">>, <<"3">>, <<"7">>, <<"9">>>>
    IN [i \in DOMAIN level |->
          Comp(<<"l","z","o","p","-">> \o level[i], <<".","l","z","o">>,
               <<<<"l","z","o","p">>, <<"-","-","k","e","e","p">>, <<"-">> \o level[i], <<"F","I","L","E">>>>)]

CompsBr ==
    LET level == <<<<"1">>, <<"3">>, <<"9">>>>
    IN [i \in DOMAIN level |->
          Comp(<<"b","r","-">> \o level[i], <<".","b","r">>,
               <<<<"b","r","o","t","l","i">>, <<"-","-","k","e","e","p">>, <<"-">> \o level[i], <<"F","I","L","E">>>>)]

CompsArchivers ==
    << Comp(<<"b","r","-","b","e","s","t">>, <<".","b","r">>, <<<<"b","r","o","t","l","i">>, <<"-","-","k","e","e","p">>, <<"-","-","b","e","s","t">>, <<"F","I","L","E">>>>),
       Comp(<<"7","z","-","u","l","t","r","a">>, <<".","7","z">>,
            <<<<"7","z">>, <<"a">>, <<"-","b","d">>, <<"-","b","b","0">>, <<"-","b","s","o","0">>, <<"-","t","7","z">>, <<"-","m","0","=","l","z","m","a">>,
              <<"-","m","x","=","9">>, <<"-","m","f","b","=","6","4">>, <<"-","m","d","=","3","2","m">>, <<"-","m","s","=","o","n">>, <<"B","A","S","E",".","7","z">>,
              <<"F","I","L","E","_","O","R","_","D","I","R">>>>),
       Comp(<<"z","i","p">>, <<".","z","i","p">>, <<<<"z","i","p">>, <<"-","-","q","u","i","e","t">>, <<"B","A","S","E",".","z","i","p">>, <<"F","I","L","E">>>>),
       Comp(<<"r","a","r">>, <<".","r","a","r">>, <<<<"r","a","r">>, <<"a">>, <<"-","i","n","u","l">>, <<"B","A","S","E",".","z","i","p">>, <<"F","I","L","E">>>>),
       Comp(<<"a","r","j","-","m","1">>, <<".","a","r","j">>, <<<<"a","r","j">>, <<"a">>, <<"-","i">>, <<"-","m","1">>, <<"B","A","S","E",".","a","r","j">>, <<"F","I","L","E">>>>),
       Comp(<<"a","r","j","-","j","m">>, <<".","a","r","j">>, <<<<"a","r","j">>, <<"a">>, <<"-","i">>, <<"-","j","m">>, <<"B","A","S","E",".","a","r","j">>, <<"F","I","L","E">>>>) >>

CompsLrzip(method) ==
    LET level == <<<<"1">>, <<"9">>>>
    IN [i \in DOMAIN level |->
          Comp(<<"l","r","z","i","p","-">> \o level[i] \o <<"-">> \o method, <<".","l","r","z">>,
               <<<<"l","r","z","i","p">>, <<"-","-","q","u","i","e","t">>, <<"-","p">>, <<"1">>, <<"-","L">>, level[i], <<"-","N">>,
                 <<"0">>, <<"-","-">> \o method, <<"F","I","L","E">>>>)]

CompsSnappy ==
    LET level == <<<<"1">>, <<"6">>, <<"9">>>>
    IN [i \in DOMAIN level |->
          Comp(<<"s","n","a","p","p","y","-">> \o level[i], <<".","s","z">>, <<<<"s","n","z","i","p">>, <<"-","k">>, <<"F","I","L","E">>>>)]

CompDact == << Comp(<<"d","a","c","t">>, <<".","d","c","t">>, <<<<"d","a","c","t">>, <<"F","I","L","E">>>>) >>

\* the module-level value of comps
StaticComps ==
    CompCp \o CompsGzip \o CompsZopfli \o CompsBz2 \o CompsXz \o CompsLzma
    \o CompsZstd \o CompsLz4 \o CompsLzop \o CompsBr \o CompsArchivers
    \o CompsLrzip(<<"b","z","2">>) \o CompsLrzip(<<"l","z","o">>) \o CompsLrzip(<<"z","p","a","q">>)
    \o CompsSnappy \o CompDact

-----------------------------------------------------------------------------
(* run_one, lines 77-85: the command and the output path of a method.      *)

\* line 79
SubstituteFile(cmd, fname) ==
    [i \in DOMAIN cmd |->
        replace(replace(cmd[i], <<"F","I","L","E","_","O","R","_","D","I","R">>, fname), <<"F","I","L","E">>, fname)]

HasBase(cmd) == \E i \in DOMAIN cmd : Contains(cmd[i], <<"B","A","S","E">>)

OutputBase(fname, key) == fname \o <<"_","o","u","t","p","u","t","_">> \o key

\* line 85
SubstituteBase(cmd, fname, key) ==
    [i \in DOMAIN cmd |-> replace(cmd[i], <<"B","A","S","E">>, OutputBase(fname, key))]

\* lines 77-85: [command, output]
Templated(fname, comp) ==
    LET c1 == SubstituteFile(comp.command, fname)
    IN IF HasBase(c1)
       THEN [command |-> SubstituteBase(c1, fname, comp.key),
             output  |-> OutputBase(fname, comp.key) \o comp.suffix]
       ELSE [command |-> c1, output |-> fname \o comp.suffix]

-----------------------------------------------------------------------------
(* Method selection, lines 59-73 and 196-206.                              *)

\* methods_re.match(key) for patterns of literal characters, ".", "c*" and a
\* final "$": re.match anchors the pattern at the start of the key only.
RECURSIVE matchhere(_, _), matchstar(_, _, _)
matchhere(re, text) ==
    IF re = <<>> THEN TRUE
    ELSE IF Len(re) >= 2 /\ re[2] = "*"
         THEN matchstar(re[1], SubSeq(re, 3, Len(re)), text)
    ELSE IF re = <<"$">> THEN text = <<>>
    ELSE IF text # <<>> /\ (re[1] = "." \/ re[1] = text[1])
         THEN matchhere(Tail(re), Tail(text))
    ELSE FALSE

matchstar(c, re, text) ==
    \/ matchhere(re, text)
    \/ /\ text # <<>>
       /\ (c = "." \/ c = text[1])
       /\ matchstar(c, re, Tail(text))

\* re.search: the pattern may start anywhere in the key
re_search(re, key) ==
    \E i \in 1..(Len(key) + 1) : matchhere(re, SubSeq(key, i, Len(key)))

re_match(re, key) == matchhere(re, key)

\* os.environ["PATH"].split(":")
PATH == << <<"/","a">>, <<"/","b">> >>

\* os.path.join(path, x)
join(path, x) ==
    IF x # <<>> /\ x[1] = "/" THEN x
    ELSE IF path = <<>> \/ path[Len(path)] = "/" THEN path \o x
    ELSE path \o <<"/">> \o x

\* the first directory of PATH (from position i) that holds x, or None
RECURSIVE SearchPath(_, _, _)
SearchPath(x, i, files) ==
    IF i > Len(PATH) THEN None
    ELSE IF join(PATH[i], x) \in files THEN join(PATH[i], x)
    ELSE SearchPath(x, i + 1, files)

find_exeuctable(x, files) ==
    IF x = <<>> THEN None
    ELSE IF x[1] = "/" \/ startswith(x, <<".","/">>)
         THEN (IF x \in files THEN x ELSE None)
    ELSE SearchPath(x, 1, files)

\* line 198
MatchedComps(cs, methods) ==
    SelectSeq(cs, LAMBDA comp : re_match(methods, comp.key))

\* line 203
FoundComps(cs, files) ==
    SelectSeq(cs, LAMBDA comp : find_exeuctable(comp.command[1], files) # None)

Keys(cs) == [i \in DOMAIN cs |-> cs[i].key]

-----------------------------------------------------------------------------
(* Stats and the aggregation of main's loop, lines 149-163 and 246-267.    *)

BlockSize == 4096

roundup_down(x, b) == (x \div b) * b

roundup(x, b) == ((x + b - 1) \div b) * b

RECURSIVE GCD(_, _)
GCD(a, b) == IF b = 0 THEN a ELSE GCD(b, a % b)

\* a / b with b > 0, as the number it denotes: a fraction in lowest terms
Ratio(a, b) == LET g == GCD(a, b) IN [n |-> a \div g, d |-> b \div g]

Inf    == [n |-> 1, d |-> 0]
NegInf == [n |-> -1, d |-> 0]

\* x < y for ratios; each side is a fraction or an infinity, not both infinite
Less(x, y) == x.n * y.d < y.n * x.d

min(x, y) == IF Less(y, x) THEN y ELSE x
max(x, y) == IF Less(x, y) THEN y ELSE x

\* Stats()
NewStats ==
    [total_files_count |-> 0, total_input_size |-> 0, total_input_size_4k |-> 0,
     total_compressed_size |-> 0, total_compressed_size_4k |-> 0,
     total_time |-> 0,
     min_ratio |-> Inf, max_ratio |-> NegInf,
     min_ratio4k |-> Inf, max_ratio4k |-> NegInf]

\* stat = (t1 - t0, input_size, output_size): stat[1], stat[2], stat[3] here
\* are stat[0], stat[1], stat[2] of the source.
RatioOnlyMin(s, stat) ==
    IF stat[2] # 0
    THEN [s EXCEPT
            !.min_ratio = min(@, Ratio(stat[3], stat[2])),
            !.max_ratio = min(@, Ratio(stat[3], stat[2])),
            !.min_ratio4k = min(@, Ratio(roundup(stat[3], BlockSize),
                                         roundup(stat[2], BlockSize))),
            !.max_ratio4k = max(@, Ratio(roundup(stat[3], BlockSize),
                                         roundup(stat[2], BlockSize)))]
    ELSE s

\* lines 261-267
UpdateRatios(s, stat) ==
    IF stat[2] # 0
    THEN [s EXCEPT
            !.min_ratio = min(@, Ratio(stat[3], stat[2])),
            !.max_ratio = max(@, Ratio(stat[3], stat[2])),
            !.min_ratio4k = min(@, Ratio(roundup(stat[3], BlockSize),
                                         roundup(stat[2], BlockSize))),
            !.max_ratio4k = max(@, Ratio(roundup(stat[3], BlockSize),
                                         roundup(stat[2], BlockSize)))]
    ELSE s

\* totals that forget the input size of the result
UpdateTotalsNoInput(s, stat) ==
    [s EXCEPT
        !.total_files_count = @ + 1,
        !.total_compressed_size = @ + stat[3],
        !.total_compressed_size_4k = @ + roundup(stat[3], BlockSize),
        !.total_time = @ + stat[1]]

\* lines 247-260
UpdateTotals(s, stat) ==
    [s EXCEPT
        !.total_files_count = @ + 1,
        !.total_input_size = @ + stat[2],
        !.total_input_size_4k = @ + roundup(stat[2], BlockSize),
        !.total_compressed_size = @ + stat[3],
        !.total_compressed_size_4k = @ + roundup(stat[3], BlockSize),
        !.total_time = @ + stat[1]]

\* stats[key] of a defaultdict(Stats)
Get(st, key) == IF key \in DOMAIN st THEN st[key] ELSE NewStats

Put(f, key, val) ==
    [k \in DOMAIN f \cup {key} |-> IF k = key THEN val ELSE f[k]]

\* one turn of the loop of line 244, for the yielded (key, stat)
Aggregate(st, key, stat) ==
    Put(st, key, UpdateRatios(UpdateTotals(Get(st, key), stat), stat))

\* the loop of line 244 over the results of one file (lines 146-147)
RECURSIVE AggregateAll(_, _)
AggregateAll(st, res) ==
    IF res = <<>> THEN st
    ELSE AggregateAll(Aggregate(st, res[1][1], res[1][2]), Tail(res))

\* the results line 245 would append to all_stats
RECURSIVE RecordAll(_, _)
RecordAll(all, res) ==
    IF res = <<>> THEN all
    ELSE RecordAll(Put(all, res[1][1],
                       (IF res[1][1] \in DOMAIN all THEN all[res[1][1]] ELSE <<>>)
                       \o <<res[1][2]>>),
                   Tail(res))

-----------------------------------------------------------------------------
(* The environment: what the bounded runs draw their inputs from.          *)

MaxFiles == 2
MaxInstalled == 2

\* regular expressions given as --methods (".*" is the default, line 174)
Methods == { <<".","*">>, <<"z","i","p">>, <<"a","r">>, <<".","*","p","$">>, <<"n","o","n","e">> }

\* programs that may be installed, and the PATH directory that holds them
Programs == { <<"c","p">>, <<"z","i","p">>, <<"r","a","r">> }

Installed == { S \in SUBSET Programs : Cardinality(S) <= MaxInstalled }

BinFiles(S) == { join(PATH[2], x) : x \in S }

\* sizes of the corpus files and of the files the programs write
InSizes  == { 0, 4097 }
OutSizes == { 1, 4097 }

\* t1 - t0 of time.monotonic(): every run is taken to last one tick
Elapsed == { 1 }

\* tempfile.NamedTemporaryFile(suffix="compcomp").name under $TMPDIR; the
\* random part of the name is taken to come out as k3 for every file
TmpDirs == { <<"/","t","m","p">>, <<"/","B","A","S","E">> }
TemplateDirs == TmpDirs \cup { <<"/","F","I","L","E","S">>, <<"/","F","I","L","E","_","O","R","_","D","I","R">> }
TmpName(dir) == dir \o <<"/","t","m","p">> \o <<"k","3">> \o <<"c","o","m","p","c","o","m","p">>

Files(n) == [1..n -> InSizes]

-----------------------------------------------------------------------------
(* The external programs.                                                  *)

Remove(f, p) == [q \in DOMAIN f \ {p} |-> f[q]]

\* the argument of the template that names the input
InputArg(comp) ==
    CHOOSE i \in DOMAIN comp.command :
        comp.command[i] \in { <<"F","I","L","E">>, <<"F","I","L","E","_","O","R","_","D","I","R">> }

\* the arguments of the template that name the output, if any
OutputArgs(comp) ==
    { i \in DOMAIN comp.command :
        /\ Contains(comp.command[i], <<"F","I","L","E">>) \/ Contains(comp.command[i], <<"B","A","S","E">>)
        /\ i # InputArg(comp) }

\* where the program writes: the file its command names, or else its input
\* with the program's own extension appended
WritesTo(comp, cmd) ==
    IF OutputArgs(comp) # {}
    THEN cmd[CHOOSE i \in OutputArgs(comp) : TRUE]
    ELSE cmd[InputArg(comp)] \o comp.suffix

\* the temporary directory after the program ran: nothing written (it failed,
\* and it fails when its input does not exist), or its output written
ProgramEffects(comp, cmd, files) ==
    {files} \cup
    (IF cmd[InputArg(comp)] \in DOMAIN files
     THEN { Put(files, WritesTo(comp, cmd), sz) : sz \in OutSizes }
     ELSE {})

-----------------------------------------------------------------------------
(* run_one and test_file.                                                  *)

\* lines 86-89
Unlink(files, p) == IF p \in DOMAIN files THEN Remove(files, p) ELSE files

\* run_one that hands back the path whatever the launch did
RunOneReturnAlways(outcome, out) == out

\* lines 91-103: what run_one returns
RunOneReturn(outcome, out) == IF outcome = "not_found" THEN None ELSE out

\* test_file that records a size of 0 for a missing output
MeasureMissingAsZero(res, files, key, out, dt, insize) ==
    IF out = None THEN [results |-> res, fs |-> files]
    ELSE [results |-> Append(res, <<key, <<dt, insize,
                                 IF out \in DOMAIN files THEN files[out] ELSE 0>> >>),
          fs |-> Unlink(files, out)]

\* lines 123-140: test_file's results and the directory after one method
Measure(res, files, key, out, dt, insize) ==
    IF out = None THEN [results |-> res, fs |-> files]
    ELSE IF out \notin DOMAIN files THEN [results |-> res, fs |-> files]
    ELSE [results |-> Append(res, <<key, <<dt, insize, files[out]>> >>),
          fs |-> Remove(files, out)]

-----------------------------------------------------------------------------
(* main.                                                                   *)

Init ==
    /\ pc = "start"
    /\ \E l \in BOOLEAN, m \in Methods, p \in { <<>>, << <<"c","o","r","p","u","s">> >> } :
          args = [list |-> l, methods |-> m, paths |-> p]
    /\ \E S \in Installed : isfile = BinFiles(S)
    /\ \E n \in 0..MaxFiles : corpus \in Files(n)
    /\ (args.list \/ args.paths = <<>>) => corpus = <<>>
    /\ comps = StaticComps
    /\ printed = <<>>
    /\ exit_status = <<>>
    /\ stats = <<>>
    /\ all_stats = <<>>
    /\ fs = <<>>
    /\ file_idx = 0
    /\ \E d \in TmpDirs : filename = TmpName(d)
    /\ input_size = 0
    /\ method_idx = 1
    /\ results = <<>>
    /\ command = <<>>
    /\ output = None
    /\ launch = None
    /\ launched = <<>>
    /\ elapsed = 1
    /\ raised = None

\* lines 184-187
List ==
    /\ pc = "start"
    /\ args.list
    /\ printed' = Keys(comps)
    /\ pc' = "returned"
    /\ UNCHANGED <<args, isfile, corpus, comps, exit_status, stats, all_stats,
                   fs, file_idx, filename, input_size, method_idx, results,
                   command, output, launch, launched, elapsed, raised>>

\* lines 189-193
NoPaths ==
    /\ pc = "start"
    /\ ~args.list
    /\ args.paths = <<>>
    /\ exit_status' = <<1>>
    /\ pc' = "exited"
    /\ UNCHANGED <<args, isfile, corpus, comps, printed, stats, all_stats,
                   fs, file_idx, filename, input_size, method_idx, results,
                   command, output, launch, launched, elapsed, raised>>

\* lines 196-208
SelectMethods ==
    /\ pc = "start"
    /\ ~args.list
    /\ args.paths # <<>>
    /\ LET matched == MatchedComps(comps, args.methods)
           found   == FoundComps(matched, isfile)
       IN IF matched = <<>>
          THEN comps' = matched /\ exit_status' = <<1>> /\ pc' = "exited"
          ELSE IF found = <<>>
          THEN comps' = found /\ exit_status' = <<1>> /\ pc' = "exited"
          ELSE comps' = found /\ exit_status' = exit_status /\ pc' = "loop"
    /\ UNCHANGED <<args, isfile, corpus, printed, stats, all_stats,
                   fs, file_idx, filename, input_size, method_idx, results,
                   command, output, launch, launched, elapsed, raised>>

\* lines 106-112: test_file opens its working copy
BeginFile ==
    /\ pc = "loop"
    /\ file_idx < Len(corpus)
    /\ results' = <<>>
    /\ input_size' = corpus[file_idx + 1]
    /\ fs' = Put(fs, filename, corpus[file_idx + 1])
    /\ method_idx' = 1
    /\ pc' = "test_file"
    /\ UNCHANGED <<args, isfile, corpus, comps, printed, exit_status, stats,
                   all_stats, file_idx, filename, command, output, launch,
                   launched, elapsed, raised>>

\* lines 113-121 and 76-103: test_file stats its working copy and calls
\* run_one, which removes a file found at the output path and launches the
\* command
RunOne ==
    /\ pc = "test_file"
    /\ method_idx <= Len(comps)
    /\ LET comp == comps[method_idx]
           t    == Templated(filename, comp)
           fs1  == Unlink(fs, t.output)
       IN /\ input_size' = fs[filename]
          /\ command' = t.command
          /\ launched' = Append(launched, comp.key)
          /\ \/ /\ launch' = "not_found"
                /\ output' = RunOneReturn("not_found", t.output)
                /\ elapsed' = 1
                /\ fs' = fs1
             \/ \E fs2 \in ProgramEffects(comp, t.command, fs1), e \in Elapsed :
                /\ launch' = "ran"
                /\ output' = RunOneReturn("ran", t.output)
                /\ elapsed' = e
                /\ fs' = fs2
    /\ pc' = "run_one_returned"
    /\ UNCHANGED <<args, isfile, corpus, comps, printed, exit_status, stats,
                   all_stats, file_idx, filename, method_idx, results, raised>>

\* lines 123-140: the rest of the turn
MeasureOutput ==
    /\ pc = "run_one_returned"
    /\ LET m == Measure(results, fs, comps[method_idx].key, output, elapsed,
                        input_size)
       IN results' = m.results /\ fs' = m.fs
    /\ method_idx' = method_idx + 1
    /\ pc' = "test_file"
    /\ UNCHANGED <<args, isfile, corpus, comps, printed, exit_status, stats,
                   all_stats, file_idx, filename, input_size, command, output,
                   launch, launched, elapsed, elapsed, raised>>

\* lines 141 and 244-267: test_file returns, the working copy is deleted and
\* main aggregates the results that process_iterable yields
EndFile ==
    /\ pc = "test_file"
    /\ method_idx > Len(comps)
    /\ fs' = Remove(fs, filename)
    /\ stats' = AggregateAll(stats, results)
    /\ all_stats' = RecordAll(all_stats, results)
    /\ file_idx' = file_idx + 1
    /\ pc' = "loop"
    /\ UNCHANGED <<args, isfile, corpus, comps, printed, exit_status, filename,
                   input_size, method_idx, results, command, output, launch,
                   launched, elapsed, raised>>

\* lines 272-302: the exception the printing step dies of, or None
PrintRaises(st) ==
    IF DOMAIN st = {} THEN "ValueError"
    ELSE IF \E k \in DOMAIN st : st[k].total_input_size = 0
              \/ st[k].total_input_size_4k = 0
              \/ st[k].total_time = 0
         THEN "ZeroDivisionError"
    ELSE None

PrintTable ==
    /\ pc = "loop"
    /\ file_idx = Len(corpus)
    /\ raised' = PrintRaises(stats)
    /\ pc' = IF raised' = None THEN "done" ELSE "raised"
    /\ UNCHANGED <<args, isfile, corpus, comps, printed, exit_status, stats,
                   all_stats, fs, file_idx, filename, input_size, method_idx,
                   results, command, output, launch, launched, elapsed>>

Next ==
    \/ List
    \/ NoPaths
    \/ SelectMethods
    \/ BeginFile
    \/ RunOne
    \/ MeasureOutput
    \/ EndFile
    \/ PrintTable

Spec == Init /\ [][Next]_vars

-----------------------------------------------------------------------------
(* run_one's templating alone, for every template of the table and working *)
(* copies in directories whose names hold the placeholder texts.           *)

InitTemplate ==
    /\ pc = "run_one"
    /\ args = [list |-> FALSE, methods |-> <<".","*">>, paths |-> << <<"c","o","r","p","u","s">> >>]
    /\ isfile = {}
    /\ corpus = <<>>
    /\ comps = StaticComps
    /\ printed = <<>>
    /\ exit_status = <<>>
    /\ stats = <<>>
    /\ all_stats = <<>>
    /\ fs = <<>>
    /\ file_idx = 0
    /\ \E d \in TemplateDirs : filename = TmpName(d)
    /\ input_size = 0
    /\ method_idx \in DOMAIN StaticComps
    /\ results = <<>>
    /\ command = <<>>
    /\ output = None
    /\ launch = None
    /\ launched = <<>>
    /\ elapsed = 1
    /\ raised = None

\* lines 77-85
Template ==
    /\ pc = "run_one"
    /\ LET t == Templated(filename, comps[method_idx])
       IN command' = t.command /\ output' = t.output
    /\ pc' = "templated"
    /\ UNCHANGED <<args, isfile, corpus, comps, printed, exit_status, stats,
                   all_stats, fs, file_idx, filename, input_size, method_idx,
                   results, launch, launched, elapsed, raised>>

NextTemplate == Template

SpecTemplate == InitTemplate /\ [][NextTemplate]_vars

-----------------------------------------------------------------------------
(* The properties.                                                         *)

ResultKeys(res) == { res[i][1] : i \in DOMAIN res }

KeySet(cs) == { cs[i].key : i \in DOMAIN cs }

ThisKey == comps[method_idx].key

\* sum of field f of the stats of a sequence of results
RECURSIVE SumField(_, _)
SumField(rs, f) == IF rs = <<>> THEN 0 ELSE rs[1][f] + SumField(Tail(rs), f)

\* the smallest multiple of BlockSize that is greater than or equal to x
SmallestMultiple(x) ==
    LET M == { k * BlockSize : k \in 0..((x \div BlockSize) + 1) }
    IN CHOOSE m \in M : m >= x /\ \A m2 \in M : m2 >= x => m <= m2

RECURSIVE SumRounded(_, _)
SumRounded(rs, f) ==
    IF rs = <<>> THEN 0
    ELSE SmallestMultiple(rs[1][f]) + SumRounded(Tail(rs), f)

\* C1: when the launch of a method's command fails because the program is
\* not found, run_one returns no output path, test_file records no result
\* under that key (neither in that turn nor later for that file), the stats
\* are left unchanged, and test_file goes on to the next method for the same
\* file; when test_file returns, the stats of every key without a result are
\* unchanged.
C1_SkipIfBinaryMissing ==
    [][ /\ (pc = "run_one_returned" /\ launch = "not_found") =>
              /\ output = None
              /\ results' = results
              /\ ThisKey \notin ResultKeys(results')
              /\ stats' = stats
              /\ pc' = "test_file"
              /\ method_idx' = method_idx + 1
              /\ file_idx' = file_idx /\ filename' = filename
        /\ ResultKeys(results') \subseteq
              ResultKeys(results) \cup
              (IF pc = "run_one_returned" /\ launch # "not_found"
               THEN {ThisKey} ELSE {})
        /\ (pc = "test_file" /\ pc' = "loop") =>
              \A k \in KeySet(comps) \ ResultKeys(results) :
                  /\ (k \in DOMAIN stats') = (k \in DOMAIN stats)
                  /\ Get(stats', k) = Get(stats, k)
      ]_vars

\* a program was not found, and another method of the table follows
C1_Witness ==
    /\ pc = "run_one_returned"
    /\ launch = "not_found"
    /\ output = None
    /\ method_idx < Len(comps)

\* C2: for every key of stats, total_files_count is the number of results
\* recorded for the key, total_input_size the sum of their input sizes and
\* total_compressed_size the sum of their output sizes; a file without a
\* result for the key adds to none of them.
C2_TotalsAreSums ==
    /\ DOMAIN stats = DOMAIN all_stats
    /\ \A k \in DOMAIN stats :
          /\ stats[k].total_files_count = Len(all_stats[k])
          /\ stats[k].total_files_count <= file_idx
          /\ stats[k].total_input_size = SumField(all_stats[k], 2)
          /\ stats[k].total_compressed_size = SumField(all_stats[k], 3)

\* two files were processed; one key has a result for both and another key
\* for one of them only
C2_Witness ==
    /\ file_idx = 2
    /\ \E k1, k2 \in DOMAIN stats :
          /\ stats[k1].total_files_count = 2
          /\ stats[k1].total_input_size = 8194
          /\ stats[k2].total_files_count = 1

\* C3: the 4k totals are the sums of the individual sizes, each rounded up
\* to the smallest multiple of 4096 not below it; so each is a multiple of
\* 4096 and not smaller than the unrounded total.
C3_BlockRounded ==
    /\ roundup(0, BlockSize) = 0
    /\ roundup(1, BlockSize) = 4096
    /\ roundup(4096, BlockSize) = 4096
    /\ roundup(4097, BlockSize) = 8192
    /\ \A k \in DOMAIN stats :
          /\ k \in DOMAIN all_stats
          /\ stats[k].total_input_size_4k = SumRounded(all_stats[k], 2)
          /\ stats[k].total_compressed_size_4k = SumRounded(all_stats[k], 3)
          /\ stats[k].total_input_size_4k % 4096 = 0
          /\ stats[k].total_compressed_size_4k % 4096 = 0
          /\ stats[k].total_input_size_4k >= stats[k].total_input_size
          /\ stats[k].total_compressed_size_4k >= stats[k].total_compressed_size

\* a key with the results of two 4097-byte files, one of them written as a
\* 1-byte output
C3_Witness ==
    \E k \in DOMAIN stats :
        /\ stats[k].total_files_count = 2
        /\ stats[k].total_input_size = 8194
        /\ stats[k].total_input_size_4k = 16384
        /\ stats[k].total_compressed_size = 4098
        /\ stats[k].total_compressed_size_4k = 12288
        /\ stats[k].total_compressed_size_4k > stats[k].total_compressed_size

\* the path has none of the placeholder texts in it
PlainPath(p) == ~Contains(p, <<"F","I","L","E">>) /\ ~Contains(p, <<"B","A","S","E">>)

\* C4: for every template that names its output file in an argument, that
\* argument after substitution is the path run_one returns (checked here for
\* working copies whose path holds no placeholder text).
C4_OutputArgIsOutput ==
    (pc = "templated" /\ PlainPath(filename)) =>
        \A i \in OutputArgs(comps[method_idx]) : command[i] = output

\* the template argument with its placeholders filled in, in one pass
RECURSIVE Fill(_, _, _)
Fill(arg, fname, base) ==
    IF arg = <<>> THEN <<>>
    ELSE IF startswith(arg, <<"F","I","L","E","_","O","R","_","D","I","R">>)
         THEN fname \o Fill(SubSeq(arg, 12, Len(arg)), fname, base)
    ELSE IF startswith(arg, <<"F","I","L","E">>)
         THEN fname \o Fill(SubSeq(arg, 5, Len(arg)), fname, base)
    ELSE IF startswith(arg, <<"B","A","S","E">>)
         THEN base \o Fill(SubSeq(arg, 5, Len(arg)), fname, base)
    ELSE <<arg[1]>> \o Fill(Tail(arg), fname, base)

Substituted ==
    LET comp == comps[method_idx]
        base == filename \o <<"_","o","u","t","p","u","t","_">> \o comp.key
    IN /\ Len(command) = Len(comp.command)
       /\ \A i \in DOMAIN command :
             command[i] = Fill(comp.command[i], filename, base)
       /\ output = IF \E i \in DOMAIN comp.command :
                         Contains(comp.command[i], <<"B","A","S","E">>)
                   THEN base \o comp.suffix
                   ELSE filename \o comp.suffix

\* C5: the command has the arguments of the template, in order, with every
\* FILE_OR_DIR and FILE replaced by the path and every BASE by
\* <path>_output_<key>; the output path is <path><suffix> for a template
\* without BASE and <path>_output_<key><suffix> for one with BASE; for any
\* path, one that holds the text FILE or BASE included.
C5_Substitution == pc = "templated" => Substituted

\* the part of C5 that the code keeps: paths without placeholder text
C5_SubstitutionPlainPaths ==
    (pc = "templated" /\ PlainPath(filename)) => Substituted

\* the table entries that pass both filters of main
Passes(i) ==
    /\ re_match(args.methods, StaticComps[i].key)
    /\ \E d \in DOMAIN PATH :
          join(PATH[d], StaticComps[i].command[1]) \in isfile

\* the expression is plain text: it matches the keys that start with it
IsLiteral(re) == \A i \in DOMAIN re : re[i] \notin {".", "*", "$"}

\* the keys of the entries that pass, in table order
SelectedKeys ==
    LET F[i \in 0..Len(StaticComps)] ==
            IF i = 0 THEN <<>>
            ELSE IF Passes(i) THEN Append(F[i - 1], StaticComps[i].key)
            ELSE F[i - 1]
    IN F[Len(StaticComps)]

\* C6: the methods run are exactly the table entries whose key the --methods
\* expression matches from its start and whose program is found on PATH, in
\* table order; when no entry passes, main exits with status 1 and no
\* command was run; with --list main prints every key and runs no command.
C6_MethodSelection ==
    /\ pc \in {"loop", "done", "raised"} =>
          /\ Keys(comps) = SelectedKeys
          /\ comps # <<>>
          /\ \A i \in DOMAIN comps : \E j \in DOMAIN StaticComps :
                comps[i] = StaticComps[j]
          /\ IsLiteral(args.methods) =>
                \A i \in DOMAIN comps : startswith(comps[i].key, args.methods)
          /\ Len(launched) = file_idx * Len(comps)
    /\ pc = "test_file" =>
          Len(launched) = file_idx * Len(comps) + method_idx - 1
    /\ pc = "run_one_returned" =>
          Len(launched) = file_idx * Len(comps) + method_idx
    /\ pc \in {"loop", "test_file", "run_one_returned", "done", "raised"} =>
          \A n \in DOMAIN launched :
              launched[n] = comps[((n - 1) % Len(comps)) + 1].key
    /\ pc \in {"exited", "returned"} => launched = <<>> /\ DOMAIN fs = {}
    /\ pc = "exited" =>
          /\ exit_status = <<1>>
          /\ args.paths = <<>> \/ SelectedKeys = <<>>
    /\ pc = "returned" =>
          /\ args.list
          /\ printed = [i \in DOMAIN StaticComps |-> StaticComps[i].key]
    /\ (exit_status = <<>>) = (pc # "exited")

\* --methods ".*p$" with zip and rar installed: cp passes the expression but
\* is not installed, rar is installed but does not pass; zip ran on two files
C6_Witness ==
    /\ pc = "loop"
    /\ file_idx = 2
    /\ args.methods = <<".","*","p","$">>
    /\ join(PATH[2], <<"r","a","r">>) \in isfile
    /\ join(PATH[2], <<"c","p">>) \notin isfile
    /\ Keys(comps) = << <<"z","i","p">> >>
    /\ launched = << <<"z","i","p">>, <<"z","i","p">> >>

\* the results of key k with a non-empty input
NonEmpty(k) == { i \in DOMAIN all_stats[k] : all_stats[k][i][2] # 0 }

\* r is the least (sign = 1) or the greatest (sign = -1) of the values
\* out[i] / in[i], i in S, all in[i] > 0
Extreme(r, S, in, out, sign) ==
    /\ r.d > 0
    /\ \E i \in S : r.n * in[i] = out[i] * r.d
    /\ \A i \in S : sign * r.n * in[i] <= sign * out[i] * r.d

\* C7: min_ratio and max_ratio are the least and the greatest of
\* output_size / input_size over the recorded results with a non-zero input
\* size, min_ratio4k and max_ratio4k the same over the rounded sizes; a
\* result with input size 0 is counted in the totals only; with a non-empty
\* file recorded, min_ratio <= max_ratio.
C7_RatioExtremes ==
    \A k \in DOMAIN stats :
        LET s == stats[k]
            In == [i \in DOMAIN all_stats[k] |-> all_stats[k][i][2]]
            Out == [i \in DOMAIN all_stats[k] |-> all_stats[k][i][3]]
            In4k == [i \in DOMAIN all_stats[k] |->
                        SmallestMultiple(all_stats[k][i][2])]
            Out4k == [i \in DOMAIN all_stats[k] |->
                         SmallestMultiple(all_stats[k][i][3])]
        IN /\ k \in DOMAIN all_stats
           /\ s.total_files_count = Len(all_stats[k])
           /\ IF NonEmpty(k) = {}
              THEN /\ s.min_ratio = Inf /\ s.max_ratio = NegInf
                   /\ s.min_ratio4k = Inf /\ s.max_ratio4k = NegInf
              ELSE /\ Extreme(s.min_ratio, NonEmpty(k), In, Out, 1)
                   /\ Extreme(s.max_ratio, NonEmpty(k), In, Out, -1)
                   /\ Extreme(s.min_ratio4k, NonEmpty(k), In4k, Out4k, 1)
                   /\ Extreme(s.max_ratio4k, NonEmpty(k), In4k, Out4k, -1)
                   /\ s.min_ratio.n * s.max_ratio.d
                         <= s.max_ratio.n * s.min_ratio.d
                   /\ s.min_ratio4k.n * s.max_ratio4k.d
                         <= s.max_ratio4k.n * s.min_ratio4k.d

\* a key with two non-empty results of different ratios
C7_Witness ==
    \E k \in DOMAIN stats :
        /\ Cardinality(NonEmpty(k)) = 2
        /\ stats[k].min_ratio # stats[k].max_ratio
        /\ stats[k].min_ratio4k # stats[k].max_ratio4k
        /\ stats[k].min_ratio # stats[k].min_ratio4k

\* a key with an empty and a non-empty result: the empty one is counted
C7_WitnessEmptyFile ==
    \E k \in DOMAIN stats :
        /\ stats[k].total_files_count = 2
        /\ Cardinality(NonEmpty(k)) = 1
        /\ stats[k].min_ratio = stats[k].max_ratio

\* C8: when the command was launched and the expected output file does not
\* exist afterwards, test_file records no result for the method, leaves the
\* stats alone and goes on to the next method; a result is recorded only
\* for an output that was stat-ed and unlinked, with the size stat-ed.
C8_MissingOutput ==
    [][ /\ (pc = "run_one_returned" /\ launch = "ran"
            /\ output \notin DOMAIN fs) =>
              /\ results' = results
              /\ stats' = stats
              /\ fs' = fs
              /\ pc' = "test_file"
              /\ method_idx' = method_idx + 1
              /\ file_idx' = file_idx /\ filename' = filename
        /\ (results' # results /\ results' # <<>>) =>
              /\ pc = "run_one_returned"
              /\ output # None
              /\ output \in DOMAIN fs
              /\ output \notin DOMAIN fs'
              /\ results' =
                    Append(results,
                           <<ThisKey, <<elapsed, input_size, fs[output]>> >>)
      ]_vars

\* the command ran, the output path does not exist, another method follows
C8_Witness ==
    /\ pc = "run_one_returned"
    /\ launch = "ran"
    /\ output # None
    /\ output \notin DOMAIN fs
    /\ method_idx < Len(comps)

\* C9: after every method's turn the file its command wrote no longer
\* exists, and when test_file returns no file made by a method remains.
C9_NoOutputOutlives ==
    /\ (pc = "test_file" /\ method_idx > 1) =>
          WritesTo(comps[method_idx - 1], command) \notin DOMAIN fs
    /\ (pc \in {"loop", "done", "raised"}) => DOMAIN fs = {}

\* what is left of C9 when the rar template is not among the methods
C9_ExceptRar == (<<"r","a","r">> \notin KeySet(comps)) => C9_NoOutputOutlives

\* C10: once a method was selected, the printing step ends without raising,
\* also when stats is empty and when a key's total_input_size is 0.
C10_PrintingCompletes == raised = None

=============================================================================
